---- MODULE Spec2Model ----
(***************************************************************************)
(* Model of yt_analyzer.py: identifier extraction, transcript retrieval,   *)
(* statistics, optional summarization and the main pipeline.               *)
(*                                                                         *)
(* A Python str is a sequence of one-character strings.  The remote        *)
(* collaborators (the transcript service, the generative text service)     *)
(* and the file system answer nondeterministically.                        *)
(***************************************************************************)
EXTENDS Integers, Sequences, FiniteSets, TLC

VARIABLES pc, argv, api_key, url, video_id, transcript, stats, analysis, exc,
          stdout, exit_status, files, calls, arg, ret

vars == <<pc, argv, api_key, url, video_id, transcript, stats, analysis, exc,
          stdout, exit_status, files, calls, arg, ret>>

\* ------------------------------------------------------------------ bounds
\* Inputs of extract_video_id are concatenations of at most MaxSegs segments.
MaxSegs == 4
\* Inputs of basic_stats include every string over StatChars up to MaxLen.
MaxLen == 4
\* The transcript service answers with at most MaxSnippets snippets.
MaxSnippets == 2

\* ------------------------------------------------------- program constants
\* {11} in the four regular expressions
IdLen == 11
\* len(words) // 150
WordsPerMinute == 150
\* transcript[:30000]
PromptLimit == 30000
\* transcript[:2000]
DisplayLimit == 2000

\* ------------------------------------------------------------- characters
Digits == {"0", "1", "2", "3", "4", "5", "6", "7", "8", "9"}

Upper == {"A", "B", "C", "D", "E", "F", "G", "H", "I", "J", "K", "L", "M",
          "N", "O", "P", "Q", "R", "S", "T", "U", "V", "W", "X", "Y", "Z"}

Lower == {"a", "b", "c", "d", "e", "f", "g", "h", "i", "j", "k", "l", "m",
          "n", "o", "p", "q", "r", "s", "t", "u", "v", "w", "x", "y", "z"}

\* the character class [0-9A-Za-z_-]
TokenChars == Digits \cup Upper \cup Lower \cup {"_", "-"}

\* the characters str.split() treats as separators (those the model uses)
Whitespace == {" ", "\n", "\t"}

Min(a, b) == IF a < b THEN a ELSE b

\* s[:n] for n >= 0
Take(s, n) == SubSeq(s, 1, Min(Len(s), n))

\* ------------------------------------------------------ regular expressions
\* A pattern of extract_video_id is (?:alt1|alt2|...)([0-9A-Za-z_-]{11}): a
\* choice of literal prefixes followed by the capturing group.  The trailing
\* .* of the first pattern can match the empty string and captures nothing.
patterns ==
    << << <<"v", "=">>, <<"/">> >>,
       << <<"e", "m", "b", "e", "d", "/">> >>,
       << <<"y", "o", "u", "t", "u", ".", "b", "e", "/">> >> >>

\* the literal lit stands in s at position i
LitAt(s, i, lit) ==
    /\ i + Len(lit) - 1 <= Len(s)
    /\ \A k \in 1..Len(lit) : s[i + k - 1] = lit[k]

\* [0-9A-Za-z_-]{11} matches in s at position i
TokRunAt(s, i) ==
    /\ i >= 1
    /\ i + IdLen - 1 <= Len(s)
    /\ \A k \in 0..(IdLen - 1) : s[i + k] \in TokenChars

\* the alternatives of pattern p that match in s at position i
AltsAt(p, s, i) ==
    {a \in 1..Len(p) : LitAt(s, i, p[a]) /\ TokRunAt(s, i + Len(p[a]))}

NoMatch == [matched |-> FALSE, group1 |-> <<>>]

\* re.search(p, s): the leftmost position where p matches, there the first
\* alternative that matches; group(1) is the 11 characters after the prefix.
re_search(p, s) ==
    LET at == {i \in 1..Len(s) : AltsAt(p, s, i) # {}}
    IN  IF at = {} THEN NoMatch
        ELSE LET i == CHOOSE x \in at : \A y \in at : x <= y
                 a == CHOOSE x \in AltsAt(p, s, i) :
                          \A y \in AltsAt(p, s, i) : x <= y
                 g == i + Len(p[a])
             IN  [matched |-> TRUE, group1 |-> SubSeq(s, g, g + IdLen - 1)]

\* re.match(r'^[0-9A-Za-z_-]{11}$', s): without re.MULTILINE, $ matches at
\* the end of the string and also just before a newline that ends the string.
re_match_bare(s) ==
    /\ TokRunAt(s, 1)
    /\ \/ Len(s) = IdLen
       \/ Len(s) = IdLen + 1 /\ s[IdLen + 1] = "\n"

Returned(v) == [raised |-> FALSE, value |-> v, msg |-> <<>>]

Raised(m) == [raised |-> TRUE, value |-> <<>>, msg |-> m]

ValueErrorMsg(u) == <<"Could not extract video ID from: ", u>>

\* extract_video_id(url): the first pattern that matches wins, then the bare
\* token, else ValueError.
extract_video_id(u) ==
    LET hits == {k \in 1..Len(patterns) : re_search(patterns[k], u).matched}
    IN  IF hits # {}
        THEN LET k == CHOOSE x \in hits : \A y \in hits : x <= y
             IN  Returned(re_search(patterns[k], u).group1)
        ELSE IF re_match_bare(u)
        THEN Returned(u)
        ELSE Raised(ValueErrorMsg(u))

\* ------------------------------------------------------------------ inputs
Host == <<"h", "t", "t", "p", "s", ":", "/", "/", "w", "w", "w", ".", "y", "o", "u", "t", "u", "b", "e", ".", "c", "o", "m", "/">>

ShortHost == <<"h", "t", "t", "p", "s", ":", "/", "/", "y", "o", "u", "t", "u", ".", "b", "e", "/">>

WatchV == <<"w", "a", "t", "c", "h", "?", "v", "=">>

EmbedLit == <<"e", "m", "b", "e", "d", "/">>

YoutuBeLit == <<"y", "o", "u", "t", "u", ".", "b", "e", "/">>

T1 == <<"d", "Q", "w", "4", "w", "9", "W", "g", "X", "c", "Q">>

T2 == <<"U", "C", "_", "x", "5", "X", "G", "1", "O", "V", "2">>

TenChars == <<"a", "-", "b", "_", "c", "0", "d", "1", "e", "2">>

Tokens == {T1, T2}

Segments ==
    {Host, ShortHost, WatchV, EmbedLit, <<"/">>, <<"v", "=">>, T1, T2,
     TenChars, <<"Z">>, <<"\n">>, <<"?">>}

RECURSIVE Concats(_)
Concats(n) ==
    IF n = 0 THEN {<<>>}
    ELSE LET prev == Concats(n - 1)
         IN  prev \cup {p \o s : p \in prev, s \in Segments}

ExtractInputs == Concats(MaxSegs)

None == <<"None">>

\* ------------------------------------------- extract_video_id on its own
\* The pipeline's variables, unused while one function is exercised.
PipelineIdle ==
    /\ argv = <<>> /\ api_key = <<>> /\ url = None /\ video_id = None
    /\ transcript = None /\ stats = None /\ analysis = None /\ exc = None
    /\ stdout = <<>> /\ exit_status = None /\ files = <<>> /\ calls = <<>>

pipeline == <<argv, api_key, url, video_id, transcript, stats, analysis, exc,
              stdout, exit_status, files, calls>>

InitExtract ==
    /\ pc = "call"
    /\ arg \in ExtractInputs
    /\ ret = None
    /\ PipelineIdle

CallExtract ==
    /\ pc = "call"
    /\ ret' = extract_video_id(arg)
    /\ pc' = "returned"
    /\ UNCHANGED <<pipeline, arg>>

NextExtract == CallExtract

SpecExtract == InitExtract /\ [][NextExtract]_vars

\* ------------------------------------------------ claims: extract_video_id
\* sub occurs in s
Contains(s, sub) == \E i \in 1..Len(s) : LitAt(s, i, sub)

\* s is exactly an 11-character token over [0-9A-Za-z_-]
IsToken(s) == Len(s) = IdLen /\ \A k \in 1..Len(s) : s[k] \in TokenChars

\* C1: whenever extract_video_id returns, the identifier returned is exactly
\* 11 characters long and every character of it is in [0-9A-Za-z_-].
C1_ReturnedIdIsToken ==
    (pc = "returned" /\ ~ret.raised) => IsToken(ret.value)

\* C2: for every token T, an input containing watch?v=T, one containing
\* embed/T, one containing youtu.be/T and the bare T all yield exactly T.
C2_AllShapesYieldToken ==
    \A T \in Tokens :
        ( /\ pc = "returned"
          /\ \/ Contains(arg, WatchV \o T)
             \/ Contains(arg, EmbedLit \o T)
             \/ Contains(arg, YoutuBeLit \o T)
             \/ arg = T )
        => ret = Returned(T)

\* one of the three recognized forms occurs in s: v=, embed/ or youtu.be/
\* followed by an 11-character token
HasRecognizedForm(s) ==
    \E i \in 1..Len(s) :
        \/ LitAt(s, i, <<"v", "=">>) /\ TokRunAt(s, i + 2)
        \/ LitAt(s, i, EmbedLit) /\ TokRunAt(s, i + Len(EmbedLit))
        \/ LitAt(s, i, YoutuBeLit) /\ TokRunAt(s, i + Len(YoutuBeLit))

\* C3: an input with none of the three recognized forms that is not itself
\* an 11-character token makes extract_video_id raise ValueError.
C3_UnrecognizedRaises ==
    (pc = "returned" /\ ~HasRecognizedForm(arg) /\ ~IsToken(arg))
        => ret = Raised(ValueErrorMsg(arg))

\* ------------------------------------------------------------- basic_stats
\* transcript.split(): the words are the maximal runs of characters that are
\* not whitespace; a word is named here by the position where it starts.
split(s) ==
    {i \in 1..Len(s) :
        /\ s[i] \notin Whitespace
        /\ (i = 1 \/ s[i - 1] \in Whitespace)}

\* basic_stats with the estimate rounded to the nearest minute
basic_stats_rounded(t) ==
    LET words == split(t)
    IN  [word_count |-> Cardinality(words),
         char_count |-> Len(t),
         estimated_duration_minutes |->
             (Cardinality(words) + WordsPerMinute \div 2) \div WordsPerMinute]

basic_stats(t) ==
    LET words == split(t)
    IN  [word_count |-> Cardinality(words),
         char_count |-> Len(t),
         estimated_duration_minutes |-> Cardinality(words) \div WordsPerMinute]

\* --------------------------------------------------- basic_stats on its own
StatChars == {"a", " ", "\n"}

RECURSIVE StringsUpTo(_)
StringsUpTo(n) ==
    IF n = 0 THEN {<<>>}
    ELSE LET prev == StringsUpTo(n - 1)
         IN  prev \cup {Append(p, c) : p \in prev, c \in StatChars}

\* n one-letter words separated by single spaces
WordsText(n) == [i \in 1..(2 * n - 1) |-> IF i % 2 = 1 THEN "w" ELSE " "]

StatWordCounts ==
    {WordsPerMinute - 1, WordsPerMinute, WordsPerMinute + 1,
     2 * WordsPerMinute - 1, 2 * WordsPerMinute, 2 * WordsPerMinute + 1}

StatsInputs == StringsUpTo(MaxLen) \cup {WordsText(n) : n \in StatWordCounts}

InitStats ==
    /\ pc = "call"
    /\ arg \in StatsInputs
    /\ ret = None
    /\ PipelineIdle

CallStats ==
    /\ pc = "call"
    /\ ret' = basic_stats(arg)
    /\ pc' = "returned"
    /\ UNCHANGED <<pipeline, arg>>

\* a second call on the text of the first: the record is computed again
CallStatsAgain ==
    /\ pc = "returned"
    /\ ret' = basic_stats(arg)
    /\ pc' = "returned_again"
    /\ UNCHANGED <<pipeline, arg>>

NextStats == CallStats \/ CallStatsAgain

SpecStats == InitStats /\ [][NextStats]_vars

\* ------------------------------------------------------ claims: basic_stats
\* the positions where a whitespace-separated token of s ends
TokenEnds(s) ==
    {i \in 1..Len(s) :
        /\ s[i] \notin Whitespace
        /\ (i = Len(s) \/ s[i + 1] \in Whitespace)}

\* what C7 says of the record returned for the text arg
C7_StatsRecord ==
    (pc \in {"returned", "returned_again"}) =>
        /\ ret.word_count = Cardinality(TokenEnds(arg))
        /\ ret.char_count = Len(arg)
        /\ ret.estimated_duration_minutes * 150 <= ret.word_count
        /\ ret.word_count < (ret.estimated_duration_minutes + 1) * 150
        /\ (ret.word_count = 299 => ret.estimated_duration_minutes = 1)
        /\ (ret.word_count = 300 => ret.estimated_duration_minutes = 2)
        /\ (arg = <<>> => ret = [word_count |-> 0, char_count |-> 0,
                                 estimated_duration_minutes |-> 0])

\* C7: basic_stats returns word_count = the number of whitespace-separated
\* tokens, char_count = the length of the text and estimated_duration_minutes
\* = floor(word_count / 150), so 299 words give 1 and 300 give 2; the empty
\* text gives all zeros, and a second call on the same text gives the same
\* record.
C7_BasicStats ==
    /\ []C7_StatsRecord
    /\ [][pc = "returned" => ret' = ret]_vars

C7_Witness ==
    /\ pc = "returned_again"
    /\ ret.word_count = 300
    /\ ret.estimated_duration_minutes = 2
    /\ ret.char_count = 599

\* ---------------------------------------------------------- get_transcript
\* " ".join(texts)
RECURSIVE Join(_)
Join(texts) ==
    IF texts = <<>> THEN <<>>
    ELSE IF Len(texts) = 1 THEN texts[1]
    ELSE texts[1] \o <<" ">> \o Join(Tail(texts))

DisabledMsg == <<"Transcripts are disabled for this video.">>

NotFoundMsg == <<"No transcript found for this video.">>

\* get_transcript with one message for both distinguished failures
get_transcript_one_message(answer) ==
    IF answer.kind = "snippets" THEN Returned(Join(answer.texts))
    ELSE IF answer.kind \in {"TranscriptsDisabled", "NoTranscriptFound"}
    THEN Raised(DisabledMsg)
    ELSE Raised(answer.msg)

\* get_transcript(video_id), given what YouTubeTranscriptApi().fetch answers:
\* the snippets' texts, TranscriptsDisabled, NoTranscriptFound, or any other
\* exception, which no except clause of get_transcript catches.
get_transcript(answer) ==
    IF answer.kind = "snippets" THEN Returned(Join(answer.texts))
    ELSE IF answer.kind = "TranscriptsDisabled" THEN Raised(DisabledMsg)
    ELSE IF answer.kind = "NoTranscriptFound" THEN Raised(NotFoundMsg)
    ELSE Raised(answer.msg)

\* ----------------------------------------------------- analyze_with_gemini
PromptHead ==
    "Analyze the following YouTube video transcript and provide: 1. **Summary** 2. **Key Points** 3. **Notable Quotes** 4. **Topics Covered** --- TRANSCRIPT:"

\* the text that follows {transcript[:30000]} inside the f-string
PromptTail == "  # Limit to avoid token limits"

\* the f-string with the whole transcript
prompt_untruncated(t) == <<PromptHead, t, PromptTail>>

\* the f-string of analyze_with_gemini
prompt(t) == <<PromptHead, Take(t, PromptLimit), PromptTail>>

\* analyze_with_gemini(transcript, api_key), given how the import of
\* google.generativeai and model.generate_content(prompt) end: whether a
\* request was sent (none is when the import fails), the request, the result.
analyze_with_gemini(t, key, answer) ==
    IF answer.kind = "ImportError"
    THEN [sent |-> FALSE, request |-> [prompt |-> <<>>, api_key |-> key],
          result |-> Raised(answer.msg)]
    ELSE [sent |-> TRUE, request |-> [prompt |-> prompt(t), api_key |-> key],
          result |-> IF answer.kind = "text" THEN Returned(answer.text)
                     ELSE Raised(answer.msg)]

\* -------------------------------------------------------------------- main
Rule == "============================================================"

\* the whole transcript printed
display_untruncated(t) == t

\* the expression printed under RAW TRANSCRIPT
display(t) ==
    IF Len(t) > DisplayLimit THEN Take(t, DisplayLimit) \o <<".", ".", ".">>
    ELSE t

output_file(id) == <<"transcript_", id, ".txt">>

\* what the five f.write calls write, in order
file_chunks(id, u, st, t) ==
    << <<"Video ID: ", id, "\n">>,
       <<"URL: ", u, "\n">>,
       <<"Word count: ", st.word_count, "\n">>,
       <<Rule, "\n\n">>,
       t >>

\* print(...), once per line of lines
Emit(lines) == stdout' = stdout \o lines

\* ----------------------------------------------------- the environment
\* position-dependent text of n characters
Text(n) ==
    [i \in 1..n |-> IF i % 7 = 0 THEN " "
                    ELSE IF i % 7 \in {1, 4} THEN "t"
                    ELSE IF i % 7 \in {2, 5} THEN "e"
                    ELSE IF i % 7 = 3 THEN "x" ELSE "s"]

SnippetTexts == {<<"h", "i">>, Text(DisplayLimit), Text(PromptLimit)}

RECURSIVE SnippetLists(_)
SnippetLists(n) ==
    IF n = 0 THEN {<<>>}
    ELSE LET prev == SnippetLists(n - 1)
         IN  prev \cup {Append(p, x) : p \in prev, x \in SnippetTexts}

\* what the transcript service may answer
FetchAnswers ==
    {[kind |-> "snippets", texts |-> l, msg |-> <<>>] :
        l \in SnippetLists(MaxSnippets)}
    \cup {[kind |-> "TranscriptsDisabled", texts |-> <<>>, msg |-> <<>>],
          [kind |-> "NoTranscriptFound", texts |-> <<>>, msg |-> <<>>],
          [kind |-> "other", texts |-> <<>>,
           msg |-> <<"HTTPSConnectionPool: Max retries exceeded">>]}

\* how the summarization may end
GeminiAnswers ==
    {[kind |-> "text", text |-> <<"**Summary** ...">>, msg |-> <<>>],
     [kind |-> "error", text |-> <<>>, msg |-> <<"400 API key not valid">>],
     [kind |-> "ImportError", text |-> <<>>,
      msg |-> <<"No module named 'google.generativeai'">>]}

\* how writing the file may end: all five chunks written, open() failing, or
\* a write failing after k chunks
WriteOutcomes ==
    {[kind |-> "ok", written |-> 5, msg |-> <<>>],
     [kind |-> "open_fails", written |-> 0,
      msg |-> <<"[Errno 13] Permission denied">>]}
    \cup {[kind |-> "write_fails", written |-> k,
           msg |-> <<"[Errno 28] No space left on device">>] : k \in 0..4}

Script == <<"y", "t", "_", "a", "n", "a", "l", "y", "z", "e", "r", ".", "p", "y">>

WatchUrl == Host \o WatchV \o T1

PlaylistUrl == Host \o <<"p", "l", "a", "y", "l", "i", "s", "t", "?", "l", "i", "s", "t", "=", "P", "L", "1">>

MainUrls == {WatchUrl, ShortHost \o T1, T2, T1 \o <<"\n">>, PlaylistUrl}

Key == <<"A", "I", "z", "a">>

Init ==
    /\ pc = "start"
    /\ argv \in {<<Script>>} \cup {<<Script, u>> : u \in MainUrls}
    /\ api_key \in {<<>>, Key}
    /\ url = None /\ video_id = None /\ transcript = None /\ stats = None
    /\ analysis = None /\ exc = None /\ stdout = <<>> /\ exit_status = None
    /\ files = <<>> /\ calls = <<>>
    /\ arg = None /\ ret = None

\* lines 98-115: the argument check, url = sys.argv[1], the credential warning
CheckArgs ==
    /\ pc = "start"
    /\ IF Len(argv) < 2
       THEN /\ Emit(<< <<"Usage: python yt_analyzer.py <youtube_url>">>,
                       <<"Example: python yt_analyzer.py 'https://www.youtube.com/watch?v=dQw4w9WgXcQ'">> >>)
            /\ exit_status' = 1
            /\ pc' = "exited"
            /\ url' = url
       ELSE /\ url' = argv[2]
            /\ IF api_key = <<>>
               THEN Emit(<< <<Rule>>,
                            <<"WARNING: No Gemini API key found!">>,
                            <<"To enable AI analysis:">>,
                            <<"  1. Get free key from https://ai.google.dev">>,
                            <<"  2. Run: export GEMINI_API_KEY='your_key_here'">>,
                            <<"  3. Or edit this script and paste key in GEMINI_API_KEY">>,
                            <<Rule>>,
                            <<"\nProceeding with transcript fetch only...\n">> >>)
               ELSE stdout' = stdout
            /\ exit_status' = exit_status
            /\ pc' = "extract"
    /\ UNCHANGED <<argv, api_key, video_id, transcript, stats, analysis, exc,
                   files, calls, arg, ret>>

\* lines 119-121
Extract ==
    /\ pc = "extract"
    /\ LET r == extract_video_id(url)
       IN  IF r.raised
           THEN /\ Emit(<< <<"Processing: ", url>> >>)
                /\ exc' = r.msg
                /\ pc' = "except"
                /\ video_id' = video_id
           ELSE /\ Emit(<< <<"Processing: ", url>>,
                           <<"Video ID: ", r.value>> >>)
                /\ video_id' = r.value
                /\ pc' = "fetch"
                /\ exc' = exc
    /\ UNCHANGED <<argv, api_key, url, transcript, stats, analysis,
                   exit_status, files, calls, arg, ret>>

\* Fetch asking the service a second time when the first request fails
Fetch_RetryOnce ==
    /\ pc = "fetch"
    /\ \E answer \in FetchAnswers :
          LET r == get_transcript(answer)
          IN  /\ calls' = Append(calls, [service |-> "transcript",
                                         request |-> video_id,
                                         answer |-> [kind |-> answer.kind,
                                                     msg |-> answer.msg]])
              /\ IF r.raised
                 THEN /\ exc' = IF calls = <<>> THEN exc ELSE r.msg
                      /\ pc' = IF calls = <<>> THEN "fetch" ELSE "except"
                      /\ transcript' = transcript
                 ELSE /\ transcript' = r.value
                      /\ pc' = "stats"
                      /\ exc' = exc
    /\ Emit(<< <<"Fetching transcript...">> >>)
    /\ UNCHANGED <<argv, api_key, url, video_id, stats, analysis,
                   exit_status, files, arg, ret>>

\* lines 124-125: one request to the transcript service
Fetch ==
    /\ pc = "fetch"
    /\ \E answer \in FetchAnswers :
          LET r == get_transcript(answer)
          IN  /\ calls' = Append(calls, [service |-> "transcript",
                                         request |-> video_id,
                                         answer |-> [kind |-> answer.kind,
                                                     msg |-> answer.msg]])
              /\ IF r.raised
                 THEN /\ exc' = r.msg
                      /\ pc' = "except"
                      /\ transcript' = transcript
                 ELSE /\ transcript' = r.value
                      /\ pc' = "stats"
                      /\ exc' = exc
    /\ Emit(<< <<"Fetching transcript...">> >>)
    /\ UNCHANGED <<argv, api_key, url, video_id, stats, analysis,
                   exit_status, files, arg, ret>>

\* lines 128-134; the counts are printed with thousands separators and are
\* kept here as the numbers printed
Stats ==
    /\ pc = "stats"
    /\ stats' = basic_stats(transcript)
    /\ Emit(<< <<"\n", Rule>>, <<"BASIC STATS">>, <<Rule>>,
               <<"Word count: ", stats'.word_count>>,
               <<"Character count: ", stats'.char_count>>,
               <<"Estimated duration: ~",
                 stats'.estimated_duration_minutes, " minutes">> >>)
    /\ pc' = IF api_key # <<>> THEN "analyze" ELSE "raw"
    /\ UNCHANGED <<argv, api_key, url, video_id, transcript, analysis, exc,
                   exit_status, files, calls, arg, ret>>

AnalysisHeading ==
    << <<"\n", Rule>>, <<"AI ANALYSIS (Gemini)">>, <<Rule>>,
       <<"Analyzing with Gemini...">> >>

\* Analyze going on to save the transcript when the summarization fails
Analyze_SaveAnyway ==
    /\ pc = "analyze"
    /\ \E answer \in GeminiAnswers :
          LET a == analyze_with_gemini(transcript, api_key, answer)
          IN  /\ calls' = IF ~a.sent THEN calls
                          ELSE Append(calls, [service |-> "gemini",
                                              request |-> a.request,
                                              answer |-> [kind |-> answer.kind,
                                                          msg |-> answer.msg]])
              /\ IF a.result.raised
                 THEN /\ analysis' = analysis
                      /\ Emit(Append(AnalysisHeading,
                                     <<"Error: ", a.result.msg>>))
                 ELSE /\ analysis' = a.result.value
                      /\ Emit(Append(AnalysisHeading, a.result.value))
              /\ pc' = "save"
              /\ exc' = exc
    /\ UNCHANGED <<argv, api_key, url, video_id, transcript, stats,
                   exit_status, files, arg, ret>>

\* lines 137-143: the branch taken with a credential
Analyze ==
    /\ pc = "analyze"
    /\ \E answer \in GeminiAnswers :
          LET a == analyze_with_gemini(transcript, api_key, answer)
          IN  /\ calls' = IF ~a.sent THEN calls
                          ELSE Append(calls, [service |-> "gemini",
                                              request |-> a.request,
                                              answer |-> [kind |-> answer.kind,
                                                          msg |-> answer.msg]])
              /\ IF a.result.raised
                 THEN /\ exc' = a.result.msg
                      /\ pc' = "except"
                      /\ analysis' = analysis
                      /\ Emit(AnalysisHeading)
                 ELSE /\ analysis' = a.result.value
                      /\ pc' = "save"
                      /\ exc' = exc
                      /\ Emit(Append(AnalysisHeading, a.result.value))
    /\ UNCHANGED <<argv, api_key, url, video_id, transcript, stats,
                   exit_status, files, arg, ret>>

\* lines 144-148: the branch taken without a credential
ShowRaw ==
    /\ pc = "raw"
    /\ Emit(<< <<"\n", Rule>>, <<"RAW TRANSCRIPT (first 2000 chars)">>,
               <<Rule>>, display(transcript) >>)
    /\ pc' = "save"
    /\ UNCHANGED <<argv, api_key, url, video_id, transcript, stats, analysis,
                   exc, exit_status, files, calls, arg, ret>>

\* lines 151-158, and the return from main that ends the process with status 0
Save ==
    /\ pc = "save"
    /\ \E outcome \in WriteOutcomes :
          /\ files' = IF outcome.kind = "open_fails" THEN files
                      ELSE Append(files,
                             [name |-> output_file(video_id),
                              content |-> SubSeq(file_chunks(video_id, url,
                                                  stats, transcript),
                                                 1, outcome.written)])
          /\ IF outcome.kind = "ok"
             THEN /\ Emit(<< <<"\nTranscript saved to: ",
                               output_file(video_id)>> >>)
                  /\ exit_status' = 0
                  /\ pc' = "exited"
                  /\ exc' = exc
             ELSE /\ exc' = outcome.msg
                  /\ pc' = "except"
                  /\ stdout' = stdout
                  /\ exit_status' = exit_status
    /\ UNCHANGED <<argv, api_key, url, video_id, transcript, stats, analysis,
                   calls, arg, ret>>

\* the handler without sys.exit(1): main returns and the status is 0
HandleException_NoExit ==
    /\ pc = "except"
    /\ Emit(<< <<"Error: ", exc>> >>)
    /\ exit_status' = 0
    /\ pc' = "exited"
    /\ UNCHANGED <<argv, api_key, url, video_id, transcript, stats, analysis,
                   exc, files, calls, arg, ret>>

\* lines 160-162
HandleException ==
    /\ pc = "except"
    /\ Emit(<< <<"Error: ", exc>> >>)
    /\ exit_status' = 1
    /\ pc' = "exited"
    /\ UNCHANGED <<argv, api_key, url, video_id, transcript, stats, analysis,
                   exc, files, calls, arg, ret>>

Next ==
    \/ CheckArgs
    \/ Extract
    \/ Fetch
    \/ Stats
    \/ Analyze
    \/ ShowRaw
    \/ Save
    \/ HandleException

Spec == Init /\ [][Next]_vars

\* --------------------------------------------------------- claims: main
Last(s) == s[Len(s)]

Ran == pc = "exited" /\ Len(argv) >= 2

Extracted == video_id # None

Retrieved == transcript # None

\* the requests sent to the summarization service
GeminiCalls == {i \in DOMAIN calls : calls[i].service = "gemini"}

TranscriptCalls == {i \in DOMAIN calls : calls[i].service = "transcript"}

\* all five writes of the output file were made
FileWritten == Len(files) = 1 /\ Len(files[1].content) = 5

WriteFailureMsgs ==
    {<<"[Errno 13] Permission denied">>,
     <<"[Errno 28] No space left on device">>}

\* C4: the exit status is zero if and only if every step succeeded; a
\* missing argument exits non-zero before any extraction or remote call; a
\* failure raised by any step ends the run with a printed error message and
\* a non-zero exit status.
C4_ExitStatus ==
    pc = "exited" =>
        /\ exit_status \in {0, 1}
        /\ exit_status = 0 <=>
              /\ Len(argv) >= 2
              /\ Extracted
              /\ Retrieved
              /\ (api_key # <<>> => analysis # None)
              /\ FileWritten
        /\ Len(argv) < 2 =>
              /\ exit_status = 1
              /\ video_id = None /\ calls = <<>> /\ files = <<>>
        /\ exc # None =>
              /\ exit_status = 1
              /\ Last(stdout) = <<"Error: ", exc>>

C4_Witness ==
    /\ pc = "exited"
    /\ exit_status = 0
    /\ api_key # <<>>
    /\ analysis # None
    /\ FileWritten

\* the line printed under the RAW TRANSCRIPT heading is the text shown
RawShown(shown) ==
    \E i \in DOMAIN stdout :
        /\ stdout[i] = <<"RAW TRANSCRIPT (first 2000 chars)">>
        /\ i + 2 \in DOMAIN stdout
        /\ stdout[i + 2] = shown

\* the transcript cut to its first 2000 characters for display
Shown2000 ==
    IF Len(transcript) <= 2000 THEN transcript
    ELSE SubSeq(transcript, 1, 2000) \o <<".", ".", ".">>

\* C5 as stated: with no credential, once extraction and retrieval succeed,
\* the run never calls the summarization service, shows the raw transcript
\* cut to 2000 characters, writes the output file and exits with status 0.
C5_NoCredentialAlwaysExitsZero ==
    (Ran /\ api_key = <<>> /\ Extracted /\ Retrieved) =>
        /\ GeminiCalls = {}
        /\ RawShown(Shown2000)
        /\ FileWritten
        /\ exit_status = 0

\* C5 amended: with no credential, once extraction and retrieval succeed,
\* the run never calls the summarization service, shows the raw transcript
\* cut to 2000 characters and goes on to write the output file; it exits with
\* status 0 with the file written, unless the write itself fails.
C5_NoCredentialSkipsSummarization ==
    (Ran /\ api_key = <<>> /\ Extracted /\ Retrieved) =>
        /\ GeminiCalls = {}
        /\ analysis = None
        /\ RawShown(Shown2000)
        /\ \/ exit_status = 0 /\ FileWritten /\ exc = None
           \/ exit_status = 1 /\ ~FileWritten /\ exc \in WriteFailureMsgs

C5_Witness ==
    /\ Ran /\ api_key = <<>> /\ Extracted /\ Retrieved
    /\ Len(transcript) > 2000
    /\ exit_status = 0
    /\ FileWritten

\* C6: the three named failures give three distinct messages and a non-zero
\* exit: invalid identifier, transcripts disabled, no transcript found; any
\* other failure of the transcript service is reported with its raw message.
\* The URL https://www.youtube.com/watch?v=dQw4w9WgXcQ yields dQw4w9WgXcQ.
C6_FailureMessages ==
    /\ (Ran /\ exc # None) =>
        /\ exit_status = 1
        /\ Last(stdout) = <<"Error: ", exc>>
        /\ ~Extracted <=>
              exc = <<"Could not extract video ID from: ", argv[2]>>
        /\ (calls # <<>> /\ calls[1].answer.kind = "TranscriptsDisabled") <=>
              exc = <<"Transcripts are disabled for this video.">>
        /\ (calls # <<>> /\ calls[1].answer.kind = "NoTranscriptFound") <=>
              exc = <<"No transcript found for this video.">>
        /\ (calls # <<>> /\ calls[1].answer.kind = "other") =>
              exc = calls[1].answer.msg
    /\ (Len(argv) >= 2 /\ argv[2] = Host \o WatchV \o T1 /\ pc # "start"
          /\ pc # "extract") =>
        /\ video_id = <<"d", "Q", "w", "4", "w", "9", "W", "g", "X", "c", "Q">>
        /\ exc # <<"Could not extract video ID from: ", argv[2]>>

C6_Witness ==
    /\ Ran
    /\ argv[2] = Host \o WatchV \o T1
    /\ video_id = T1
    /\ calls # <<>>
    /\ calls[1].answer.kind = "TranscriptsDisabled"
    /\ Last(stdout) = <<"Error: ", <<"Transcripts are disabled for this video.">> >>
    /\ exit_status = 1

\* C8: the transcript text in the summarization request is exactly the first
\* min(L, 30000) characters of the transcript, and the file written by a
\* successful run holds the identifier, the URL as given on the command line,
\* the word count and the full transcript.
C8_TruncatedRequestFullFile ==
    /\ \A i \in GeminiCalls :
          LET sent == calls[i].request.prompt[2]
          IN  /\ Len(sent) <= 30000
              /\ Len(sent) =
                    IF Len(transcript) < 30000 THEN Len(transcript) ELSE 30000
              /\ sent = SubSeq(transcript, 1, Len(sent))
    /\ (pc = "exited" /\ exit_status = 0) =>
          /\ Len(files) = 1
          /\ files[1].name = <<"transcript_", video_id, ".txt">>
          /\ Len(files[1].content) = 5
          /\ files[1].content[1][2] = video_id
          /\ files[1].content[2][2] = argv[2]
          /\ files[1].content[3][2] = Cardinality(TokenEnds(transcript))
          /\ files[1].content[5] = transcript

C8_Witness ==
    /\ pc = "exited"
    /\ exit_status = 0
    /\ GeminiCalls # {}
    /\ Len(transcript) > 30000
    /\ files[1].content[5] = transcript

\* what C9 says of one state: at most one request to each service, the
\* transcript request first and for the identifier extracted, the
\* summarization request only with a transcript and a credential
C9_CallsInOrder ==
    /\ Cardinality(TranscriptCalls) <= 1
    /\ Cardinality(GeminiCalls) <= 1
    /\ TranscriptCalls # {} =>
          /\ TranscriptCalls = {1}
          /\ Extracted
          /\ calls[1].request = video_id
    /\ GeminiCalls # {} =>
          /\ GeminiCalls = {2}
          /\ calls[1].answer.kind = "snippets"
          /\ Retrieved
          /\ api_key # <<>>

\* C9: the steps occur in strict sequence with no retry: each service is
\* called at most once, the transcript service only after extraction, the
\* summarization service only after retrieval and with a credential; after
\* the first failing step no collaborator is called and the run terminates.
C9_StrictSequenceNoRetry ==
    /\ []C9_CallsInOrder
    /\ [][Len(calls') <= Len(calls) + 1]_vars
    /\ [][exc # None => (calls' = calls /\ files' = files /\ pc' = "exited")]_vars
    /\ [][exc' # None => pc' \in {"except", "exited"}]_vars

C9_Witness ==
    /\ pc = "exited"
    /\ Len(calls) = 2
    /\ calls[2].answer.kind = "error"
    /\ exit_status = 1

\* C10: the output file is written only as the last step, after the
\* summarization has succeeded or been skipped; when a credential is
\* configured and the summarization fails no file is written; a run that
\* writes the file exits with status 0 unless the write itself fails.
C10_FileWrittenLast ==
    /\ files # <<>> =>
          /\ Len(files) = 1
          /\ pc \in {"except", "exited"}
          /\ Extracted /\ Retrieved
          /\ files[1].name = <<"transcript_", video_id, ".txt">>
          /\ IF api_key # <<>> THEN analysis # None
             ELSE RawShown(Shown2000) /\ GeminiCalls = {}
    /\ (api_key # <<>> /\ Retrieved /\ analysis = None
          /\ pc \in {"except", "exited"}) => files = <<>>
    /\ (pc = "exited" /\ files # <<>>) =>
          \/ exit_status = 0
          \/ ~FileWritten /\ exc \in WriteFailureMsgs

C10_Witness ==
    /\ pc = "exited"
    /\ api_key # <<>>
    /\ Retrieved
    /\ Len(calls) = 2
    /\ analysis = None
    /\ files = <<>>
    /\ exit_status = 1

====
